---- MODULE Spec2Model ----
(***************************************************************************)
(* A model of the ecash mint of src/src/mint.rs: the Mint structure, its   *)
(* issuing (mint), transforming (split), redeeming (melt) and status       *)
(* (check-spendable) operations, and the callers that drive them.          *)
(*                                                                         *)
(* Every method of Mint that changes state takes `&mut self`, so two calls *)
(* on one Mint never overlap: a call is one atomic step of the model, and  *)
(* concurrency is the order in which callers' calls get the Mint.          *)
(***************************************************************************)
EXTENDS Integers, Sequences, FiniteSets, TLC

VARIABLES active_keyset, inactive_keysets, spent_secrets, call, clients

vars == <<active_keyset, inactive_keysets, spent_secrets, call, clients>>

(***************************************************************************)
(* Bounds and input universes                                              *)
(***************************************************************************)
\* longest list of proofs in a request
MaxProofs == 2
\* longest list of blinded messages in a request
MaxOutputs == 2
\* max_order given to Mint::new for the active keyset: keys 2^0 .. 2^(MaxOrder-1)
MaxOrder == 2
\* max order of the inactive (rotated-out) keyset
InactiveOrder == 1
\* longest list of outputs handed to create_split_response on its own
MaxBucketed == 3

Secrets == {"s1", "s2"}
ProofAmounts == {1, 2}
OutputAmounts == {1, 2, 3}
TargetAmounts == {0, 1, 2, 3}
InvoiceAmounts == {1, 3}
BlindedPoints == {"B_"}
Preimages == {"preimage", "preimage2"}
ActiveId == "A"
InactiveId == "B"

(***************************************************************************)
(* Option and Result values                                                *)
(***************************************************************************)
None == <<>>
Some(x) == <<x>>
Ok(v) == [kind |-> "Ok", value |-> v]
Err(e) == [kind |-> "Err", error |-> e]
\* an unwinding panic: the call returns no value at all
Panic == [kind |-> "Panic"]
IsOk(r) == r.kind = "Ok"
IsErr(r, e) == r.kind = "Err" /\ r.error = e

SeqsUpTo(S, n) == UNION {[1..k -> S] : k \in 0..n}

RECURSIVE Pow2(_)
Pow2(n) == IF n = 0 THEN 1 ELSE 2 * Pow2(n - 1)

(***************************************************************************)
(* Collaborators outside src/: keyset generation, the blind-signature      *)
(* primitive, Amount and the request accessors of crate::types.            *)
(***************************************************************************)
\* keyset::mint::KeySet::generate: one keypair per power of two below 2^max_order;
\* the secret key of denomination a in keyset id is the pair <<id, a>>.
KeySet_generate(id, max_order) ==
    [id |-> id,
     keys |-> [a \in {Pow2(i) : i \in 0..(max_order - 1)} |-> [secret_key |-> <<id, a>>]]]

\* dhke::sign_message(secret_key, blinded point): the blind signature
sign_message(k, b) == [k |-> k, m |-> b]

\* dhke::verify_message(secret_key, unblinded signature, secret)
verify_message(k, c, secret) ==
    IF c = [k |-> k, m |-> secret] THEN Ok(TRUE) ELSE Err("Crypto")

RECURSIVE SumAmounts(_)
SumAmounts(s) == IF s = <<>> THEN 0 ELSE Head(s).amount + SumAmounts(Tail(s))

\* SplitRequest::proofs_amount / MeltRequest::proofs_amount
proofs_amount(request) == SumAmounts(request.proofs)
\* SplitRequest::output_amount
output_amount(request) == SumAmounts(request.outputs)
\* SplitResponse::target_amount: the total of the target bucket (snd)
target_amount(response) == SumAmounts(response.snd)
\* MeltRequest::invoice_amount
invoice_amount(request) == Ok(request.pr.amount)

\* Amount::split: the powers of two of the amount, largest first
RECURSIVE LargestPow2(_, _)
LargestPow2(n, p) == IF 2 * p > n THEN p ELSE LargestPow2(n, 2 * p)
RECURSIVE Amount_split(_)
Amount_split(n) ==
    IF n = 0 THEN <<>> ELSE <<LargestPow2(n, 1)>> \o Amount_split(n - LargestPow2(n, 1))

(***************************************************************************)
(* The Mint                                                                *)
(***************************************************************************)
\* the Mint the methods run on (`self`)
Self == [active_keyset |-> active_keyset,
         inactive_keysets |-> inactive_keysets,
         spent_secrets |-> spent_secrets]

\* keyset::KeySet::from(mint::KeySet): the keyset as handed to wallets, each
\* keypair reduced to its public key
KeySet_from(mint_keyset) ==
    [id |-> mint_keyset.id,
     keys |-> [a \in DOMAIN mint_keyset.keys |->
                  [public_key |-> <<"pub", mint_keyset.keys[a].secret_key>>]]]

\* Mint::active_keyset_pubkeys
active_keyset_pubkeys(self) == KeySet_from(self.active_keyset)

\* a mutant of keysets: the active keyset's id is not inserted
keysets_inactive_only(self) == [keysets |-> DOMAIN self.inactive_keysets]

\* Mint::keysets
keysets(self) == [keysets |-> (DOMAIN self.inactive_keysets) \cup {self.active_keyset.id}]

\* Mint::keyset
keyset(self, id) ==
    IF self.active_keyset.id = id THEN Some(KeySet_from(self.active_keyset))
    ELSE IF id \in DOMAIN self.inactive_keysets
         THEN Some(KeySet_from(self.inactive_keysets[id]))
         ELSE None

\* Mint::blind_sign
blind_sign(self, blinded_message) ==
    IF blinded_message.amount \notin DOMAIN self.active_keyset.keys
    THEN Err("AmountKey")
    ELSE Ok([amount |-> blinded_message.amount,
             c |-> sign_message(self.active_keyset.keys[blinded_message.amount].secret_key,
                                blinded_message.b),
             id |-> self.active_keyset.id])

\* a mutant of sign_each: a message of an unsupported amount is skipped and the
\* rest of the batch is issued
RECURSIVE sign_each_skipping(_, _, _)
sign_each_skipping(self, outputs, blind_signatures) ==
    IF outputs = <<>> THEN Ok(blind_signatures)
    ELSE LET signed == blind_sign(self, Head(outputs))
         IN IF ~IsOk(signed) THEN sign_each_skipping(self, Tail(outputs), blind_signatures)
            ELSE sign_each_skipping(self, Tail(outputs),
                                    Append(blind_signatures, signed.value))

\* the loop of Mint::process_mint_request: sign in order, stop at the first error
RECURSIVE sign_each(_, _, _)
sign_each(self, outputs, blind_signatures) ==
    IF outputs = <<>> THEN Ok(blind_signatures)
    ELSE LET signed == blind_sign(self, Head(outputs))
         IN IF ~IsOk(signed) THEN signed
            ELSE sign_each(self, Tail(outputs), Append(blind_signatures, signed.value))

\* Mint::process_mint_request
process_mint_request(self, mint_request) ==
    LET signed == sign_each(self, mint_request.outputs, <<>>)
    IN IF IsOk(signed) THEN Ok([promises |-> signed.value]) ELSE signed

\* the test of Mint::create_split_response that sends a signed output to the
\* target bucket
\* a mutant of fits_target: an output that completes the target exactly is change
fits_target_strict(target_total, signed_amount, amount) == target_total + signed_amount < amount

fits_target(target_total, signed_amount, amount) == target_total + signed_amount <= amount

\* the loop of Mint::create_split_response
RECURSIVE bucket_each(_, _, _, _, _, _)
bucket_each(self, amount, outputs, target_total, target, change) ==
    IF outputs = <<>> THEN Ok([fst |-> change, snd |-> target])
    ELSE LET signed == blind_sign(self, Head(outputs))
         IN IF ~IsOk(signed) THEN signed
            ELSE IF fits_target(target_total, signed.value.amount, amount)
                 THEN bucket_each(self, amount, Tail(outputs),
                                  target_total + signed.value.amount,
                                  Append(target, signed.value), change)
                 ELSE bucket_each(self, amount, Tail(outputs), target_total,
                                  target, Append(change, signed.value))

\* Mint::create_split_response
create_split_response(self, amount, outputs) ==
    bucket_each(self, amount, outputs, 0, <<>>, <<>>)

\* a mutant of resolve_keyset: the proof's keyset id is ignored
resolve_keyset_active(self, id) == self.active_keyset

\* the keyset a proof is verified against (Mint::verify_proof, map_or_else)
resolve_keyset(self, id) ==
    IF id = None THEN self.active_keyset
    ELSE IF id[1] \in DOMAIN self.inactive_keysets THEN self.inactive_keysets[id[1]]
    ELSE self.active_keyset

\* a mutant of verify_proof: the spent_secrets lookup is left out
verify_proof_without_lookup(self, proof) ==
    LET ks == resolve_keyset(self, proof.id)
    IN IF proof.amount \notin DOMAIN ks.keys THEN Err("AmountKey")
       ELSE LET v == verify_message(ks.keys[proof.amount].secret_key, proof.c, proof.secret)
            IN IF ~IsOk(v) THEN v ELSE Ok(proof.secret)

\* Mint::verify_proof
verify_proof(self, proof) ==
    IF proof.secret \in self.spent_secrets THEN Err("TokenSpent")
    ELSE LET ks == resolve_keyset(self, proof.id)
         IN IF proof.amount \notin DOMAIN ks.keys THEN Err("AmountKey")
            ELSE LET v == verify_message(ks.keys[proof.amount].secret_key, proof.c, proof.secret)
                 IN IF ~IsOk(v) THEN v ELSE Ok(proof.secret)

\* the verification loops of process_split_request and verify_melt_request:
\* the secrets of the proofs, or the first proof's error
RECURSIVE verify_each(_, _, _)
verify_each(self, proofs, secrets) ==
    IF proofs = <<>> THEN Ok(secrets)
    ELSE LET v == verify_proof(self, Head(proofs))
         IN IF ~IsOk(v) THEN v
            ELSE verify_each(self, Tail(proofs), Append(secrets, v.value))

\* a mutant of Reverse: the outputs are left in the order given
Reverse_forgotten(s) == s

Reverse(s) == [i \in 1..Len(s) |-> s[Len(s) + 1 - i]]

\* a mutant of insert_each: only the first of the secrets is inserted
insert_first(spent, secrets) == IF secrets = <<>> THEN spent ELSE spent \cup {secrets[1]}

\* a mutant of insert_each: the set is rebuilt from the secrets of this call
insert_each_replacing(spent, secrets) == {secrets[i] : i \in 1..Len(secrets)}

\* `for secret in secrets { self.spent_secrets.insert(secret); }`
insert_each(spent, secrets) == spent \cup {secrets[i] : i \in 1..Len(secrets)}

\* the outcome of a call: the Mint's spent_secrets after it, and what it returns
Outcome(spent, result) == [spent_secrets |-> spent, result |-> result]

\* a mutant of check_amounts: the test that inputs equal outputs is left out
check_amounts_without_equality(split_request) ==
    LET proofs_total == proofs_amount(split_request)
        output_total == output_amount(split_request)
    IN IF proofs_total < split_request.amount THEN Err("Amount")
       ELSE IF output_total < split_request.amount THEN Err("Amount")
       ELSE Ok(TRUE)

\* the amount checks that open Mint::process_split_request
check_amounts(split_request) ==
    LET proofs_total == proofs_amount(split_request)
        output_total == output_amount(split_request)
    IN IF proofs_total < split_request.amount THEN Err("Amount")
       ELSE IF output_total < split_request.amount THEN Err("Amount")
       ELSE IF proofs_total # output_total THEN Err("Amount")
       ELSE Ok(TRUE)

\* a mutant of split_and_mark: the secrets are marked spent as soon as they are
\* verified, before the bucketing that can still fail
split_and_mark_early(self, split_request, secrets) ==
    LET marked == insert_each(self.spent_secrets, secrets)
        first == create_split_response(self, split_request.amount, split_request.outputs)
        second == create_split_response(self, split_request.amount,
                                        Reverse(split_request.outputs))
    IN IF ~IsOk(first) THEN [spent_secrets |-> marked, result |-> first, passes |-> 1]
       ELSE IF target_amount(first.value) = split_request.amount
            THEN [spent_secrets |-> marked, result |-> Ok(first.value), passes |-> 1]
            ELSE IF ~IsOk(second) THEN [spent_secrets |-> marked, result |-> second, passes |-> 2]
            ELSE IF target_amount(second.value) # split_request.amount
                 THEN [spent_secrets |-> marked, result |-> Err("OutputOrdering"), passes |-> 2]
                 ELSE [spent_secrets |-> marked, result |-> Ok(second.value), passes |-> 2]

\* the end of Mint::process_split_request, once every proof is verified: one
\* bucketing pass, a second over the reversed outputs when the first misses the
\* amount, then the secrets are marked spent. `passes` counts the calls of
\* create_split_response.
split_and_mark(self, split_request, secrets) ==
    LET first == create_split_response(self, split_request.amount, split_request.outputs)
        unchanged(r, n) == [spent_secrets |-> self.spent_secrets, result |-> r, passes |-> n]
    IN IF ~IsOk(first) THEN unchanged(first, 1)
       ELSE IF target_amount(first.value) = split_request.amount
            THEN [spent_secrets |-> insert_each(self.spent_secrets, secrets),
                  result |-> Ok(first.value), passes |-> 1]
            ELSE LET second == create_split_response(self, split_request.amount,
                                                     Reverse(split_request.outputs))
                 IN IF ~IsOk(second) THEN unchanged(second, 2)
                    ELSE IF target_amount(second.value) # split_request.amount
                         THEN unchanged(Err("OutputOrdering"), 2)
                         ELSE [spent_secrets |-> insert_each(self.spent_secrets, secrets),
                               result |-> Ok(second.value), passes |-> 2]

\* a mutant of process_split_request: the proofs are verified before the amounts
\* are checked
process_split_request_verifying_first(self, split_request) ==
    LET amounts == check_amounts(split_request)
        secrets == verify_each(self, split_request.proofs, <<>>)
        unchanged(r) == [spent_secrets |-> self.spent_secrets, result |-> r, passes |-> 0]
    IN IF ~IsOk(secrets) THEN unchanged(secrets)
       ELSE IF ~IsOk(amounts) THEN unchanged(amounts)
       ELSE split_and_mark(self, split_request, secrets.value)

\* Mint::process_split_request
process_split_request(self, split_request) ==
    LET amounts == check_amounts(split_request)
        unchanged(r) == [spent_secrets |-> self.spent_secrets, result |-> r, passes |-> 0]
    IN IF ~IsOk(amounts) THEN unchanged(amounts)
       ELSE LET secrets == verify_each(self, split_request.proofs, <<>>)
            IN IF ~IsOk(secrets) THEN unchanged(secrets)
               ELSE split_and_mark(self, split_request, secrets.value)

\* a mutant of check_spendable: true is reported for the secrets that can still
\* be spent
check_spendable_negated(self, check) ==
    Ok([spendable |-> [i \in 1..Len(check.proofs) |->
                          check.proofs[i].secret \notin self.spent_secrets]])

\* Mint::check_spendable
check_spendable(self, check) ==
    Ok([spendable |-> [i \in 1..Len(check.proofs) |->
                          check.proofs[i].secret \in self.spent_secrets]])

\* a mutant of verify_melt_request: proofs that only just cover the invoice are
\* refused
verify_melt_request_strict(self, melt_request) ==
    LET proofs_total == proofs_amount(melt_request)
        invoice == invoice_amount(melt_request)
    IN IF ~IsOk(invoice) THEN Outcome(self.spent_secrets, invoice)
       ELSE IF proofs_total <= invoice.value THEN Outcome(self.spent_secrets, Err("Amount"))
       ELSE LET secrets == verify_each(self, melt_request.proofs, <<>>)
            IN IF ~IsOk(secrets) THEN Outcome(self.spent_secrets, secrets)
               ELSE Outcome(self.spent_secrets, Ok(TRUE))

\* a mutant of verify_melt_request: the verified secrets are marked spent at once
verify_melt_request_marking(self, melt_request) ==
    LET proofs_total == proofs_amount(melt_request)
        invoice == invoice_amount(melt_request)
    IN IF ~IsOk(invoice) THEN Outcome(self.spent_secrets, invoice)
       ELSE IF proofs_total < invoice.value THEN Outcome(self.spent_secrets, Err("Amount"))
       ELSE LET secrets == verify_each(self, melt_request.proofs, <<>>)
            IN IF ~IsOk(secrets) THEN Outcome(self.spent_secrets, secrets)
               ELSE Outcome(insert_each(self.spent_secrets, secrets.value), Ok(TRUE))

\* Mint::verify_melt_request
verify_melt_request(self, melt_request) ==
    LET proofs_total == proofs_amount(melt_request)
        invoice == invoice_amount(melt_request)
    IN IF ~IsOk(invoice) THEN Outcome(self.spent_secrets, invoice)
       ELSE IF proofs_total < invoice.value THEN Outcome(self.spent_secrets, Err("Amount"))
       ELSE LET secrets == verify_each(self, melt_request.proofs, <<>>)
            IN IF ~IsOk(secrets) THEN Outcome(self.spent_secrets, secrets)
               ELSE Outcome(self.spent_secrets, Ok(TRUE))

\* a mutant of change_each: the output is signed with the amount its caller gave
RECURSIVE change_each_keeping_amount(_, _, _, _, _)
change_each_keeping_amount(self, outputs, amounts, i, change) ==
    IF i > Len(amounts) THEN Ok(change)
    ELSE IF i > Len(outputs) THEN Panic
    ELSE LET signature == blind_sign(self, outputs[i])
         IN IF ~IsOk(signature) THEN signature
            ELSE change_each_keeping_amount(self, outputs, amounts, i + 1,
                                            Append(change, signature.value))

\* the change loop of Mint::process_melt_request: outputs[i] is indexed without a
\* length check, so an index past the end panics
RECURSIVE change_each(_, _, _, _, _)
change_each(self, outputs, amounts, i, change) ==
    IF i > Len(amounts) THEN Ok(change)
    ELSE IF i > Len(outputs) THEN Panic
    ELSE LET message == [outputs[i] EXCEPT !.amount = amounts[i]]
             signature == blind_sign(self, message)
         IN IF ~IsOk(signature) THEN signature
            ELSE change_each(self, outputs, amounts, i + 1, Append(change, signature.value))

\* a mutant of process_melt_request: change that no output can carry is an error
process_melt_request_requiring_outputs(self, melt_request, preimage, total_spent) ==
    LET change_target == proofs_amount(melt_request) - total_spent
        amounts == Amount_split(change_target)
        change == IF melt_request.outputs # None
                  THEN change_each(self, melt_request.outputs[1], amounts, 1, <<>>)
                  ELSE IF amounts = <<>> THEN Ok(<<>>) ELSE Err("Amount")
    IN IF ~IsOk(change) THEN Outcome(self.spent_secrets, change)
       ELSE Outcome(self.spent_secrets,
                    Ok([paid |-> TRUE, preimage |-> Some(preimage),
                        change |-> Some(change.value)]))

\* Mint::process_melt_request
process_melt_request(self, melt_request, preimage, total_spent) ==
    LET secrets == <<>>  \* Vec::with_capacity(..): a new, empty vector
        spent == insert_each(self.spent_secrets, secrets)
        change_target == proofs_amount(melt_request) - total_spent
        amounts == Amount_split(change_target)
        change == IF melt_request.outputs # None
                  THEN change_each(self, melt_request.outputs[1], amounts, 1, <<>>)
                  ELSE Ok(<<>>)
    IN IF ~IsOk(change) THEN Outcome(spent, change)
       ELSE Outcome(spent, Ok([paid |-> TRUE, preimage |-> Some(preimage),
                               change |-> Some(change.value)]))

(***************************************************************************)
(* Requests the callers make                                               *)
(***************************************************************************)
\* the unblinded signature of a token of the active keyset
ActiveSignature(amount, secret) == sign_message(<<ActiveId, amount>>, secret)

\* tokens issued under the active keyset, presented with no keyset id or with
\* the id of the inactive keyset
Proofs == {[amount |-> a, secret |-> s, c |-> ActiveSignature(a, s), id |-> i] :
             a \in ProofAmounts, s \in Secrets, i \in {None, Some(InactiveId)}}
BlindedMessages == [amount : OutputAmounts, b : BlindedPoints]
ProofLists == SeqsUpTo(Proofs, MaxProofs)
OutputLists == SeqsUpTo(BlindedMessages, MaxOutputs)

MintRequests == [outputs : OutputLists]
SplitRequests == [amount : TargetAmounts, proofs : ProofLists, outputs : OutputLists]
MeltRequests == [proofs : ProofLists, pr : [amount : InvoiceAmounts],
                 outputs : {None} \cup {Some(o) : o \in OutputLists}]
CheckSpendableRequests == [proofs : ProofLists]

(***************************************************************************)
(* One caller at a time: a call and the response it is handed              *)
(***************************************************************************)
Init ==
    /\ active_keyset = KeySet_generate(ActiveId, MaxOrder)
    /\ inactive_keysets = [i \in {InactiveId} |-> KeySet_generate(i, InactiveOrder)]
    /\ spent_secrets \in SUBSET Secrets
    /\ call = None
    /\ clients = <<>>

Called(op, request, pre, outcome, extra) ==
    /\ spent_secrets' = outcome.spent_secrets
    /\ call' = Some([op |-> op, request |-> request, pre_spent |-> pre,
                     result |-> outcome.result, extra |-> extra])
    /\ UNCHANGED <<active_keyset, inactive_keysets, clients>>

ProcessMintRequest ==
    /\ call = None
    /\ \E request \in MintRequests :
           Called("process_mint_request", request, spent_secrets,
                  Outcome(spent_secrets, process_mint_request(Self, request)), None)

ProcessSplitRequest ==
    /\ call = None
    /\ \E request \in SplitRequests :
           LET outcome == process_split_request(Self, request)
           IN Called("process_split_request", request, spent_secrets, outcome,
                     Some([passes |-> outcome.passes]))

CheckSpendable ==
    /\ call = None
    /\ \E request \in CheckSpendableRequests :
           Called("check_spendable", request, spent_secrets,
                  Outcome(spent_secrets, check_spendable(Self, request)), None)

VerifyMeltRequest ==
    /\ call = None
    /\ \E request \in MeltRequests :
           Called("verify_melt_request", request, spent_secrets,
                  verify_melt_request(Self, request), None)

\* phase two of a melt: the caller whose verify_melt_request returned Ok has paid
\* the invoice and hands the same request back with the preimage and what was paid
ProcessMeltRequest ==
    /\ call # None
    /\ call[1].op = "verify_melt_request"
    /\ IsOk(call[1].result)
    /\ \E preimage \in Preimages, total_spent \in 0..proofs_amount(call[1].request) :
           Called("process_melt_request", call[1].request, spent_secrets,
                  process_melt_request(Self, call[1].request, preimage, total_spent),
                  Some([preimage |-> preimage, total_spent |-> total_spent]))

\* the keyset queries; UnknownId names no keyset of the Mint
UnknownId == "X"
KeysetIds == {ActiveId, InactiveId, UnknownId}

QueryKeysets ==
    /\ call = None
    /\ Called("keysets", None, spent_secrets, Outcome(spent_secrets, Ok(keysets(Self))), None)

QueryKeyset ==
    /\ call = None
    /\ \E id \in KeysetIds :
           Called("keyset", id, spent_secrets, Outcome(spent_secrets, Ok(keyset(Self, id))), None)

QueryActiveKeysetPubkeys ==
    /\ call = None
    /\ Called("active_keyset_pubkeys", None, spent_secrets,
              Outcome(spent_secrets, Ok(active_keyset_pubkeys(Self))), None)

\* the caller takes the response
Return ==
    /\ call # None
    /\ call' = None
    /\ UNCHANGED <<active_keyset, inactive_keysets, spent_secrets, clients>>

Next ==
    \/ ProcessMintRequest
    \/ ProcessSplitRequest
    \/ CheckSpendable
    \/ VerifyMeltRequest
    \/ ProcessMeltRequest
    \/ QueryKeysets
    \/ QueryKeyset
    \/ QueryActiveKeysetPubkeys
    \/ Return

Spec == Init /\ [][Next]_vars

(***************************************************************************)
(* Properties of single calls, checked under Spec                          *)
(***************************************************************************)
\* the call whose response is in the caller's hands
TheCall == call[1]
Calling(op) == call # None /\ TheCall.op = op
\* the Mint as it was when the call began
SelfBefore == [active_keyset |-> active_keyset,
               inactive_keysets |-> inactive_keysets,
               spent_secrets |-> TheCall.pre_spent]
SecretsOf(proofs) == {proofs[i].secret : i \in 1..Len(proofs)}

\* C2 (as claimed): after verify_melt_request and then process_melt_request
\* succeed on one melt request, the secret of every proof of the request is in
\* spent_secrets.
C2_MeltMarksSpent ==
    (Calling("process_melt_request") /\ IsOk(TheCall.result))
        => SecretsOf(TheCall.request.proofs) \subseteq spent_secrets

\* C6: a call that returns an error leaves spent_secrets as it was before the
\* call, also when some proofs of the batch had been verified already.
C6_ErrorLeavesSpentSecrets ==
    (call # None /\ TheCall.result.kind = "Err") => spent_secrets = TheCall.pre_spent

\* a split that fails after every one of its proofs was verified
C6_Witness ==
    /\ Calling("process_split_request")
    /\ IsErr(TheCall.result, "OutputOrdering")
    /\ SecretsOf(TheCall.request.proofs) # {}
    /\ SecretsOf(TheCall.request.proofs) \cap spent_secrets = {}

\* C7: for a successful split the promises of both buckets sum to the sum of the
\* input proofs and to the sum of the requested outputs, and the target bucket
\* (snd) sums to request.amount.
C7_Conservation ==
    (Calling("process_split_request") /\ IsOk(TheCall.result)) =>
        LET response == TheCall.result.value
            request == TheCall.request
        IN /\ SumAmounts(response.fst) + SumAmounts(response.snd) = SumAmounts(request.proofs)
           /\ SumAmounts(response.fst) + SumAmounts(response.snd) = SumAmounts(request.outputs)
           /\ SumAmounts(response.snd) = request.amount

\* a successful split with promises in both buckets
C7_Witness ==
    /\ Calling("process_split_request")
    /\ IsOk(TheCall.result)
    /\ TheCall.result.value.fst # <<>>
    /\ TheCall.result.value.snd # <<>>

\* the total the greedy rule puts in the target bucket, over amounts alone
RECURSIVE GreedyTarget(_, _, _)
GreedyTarget(amounts, amount, total) ==
    IF amounts = <<>> THEN total
    ELSE IF total + Head(amounts) <= amount
         THEN GreedyTarget(Tail(amounts), amount, total + Head(amounts))
         ELSE GreedyTarget(Tail(amounts), amount, total)
AmountsOf(outputs) == [i \in 1..Len(outputs) |-> outputs[i].amount]
GivenReaches(request) == GreedyTarget(AmountsOf(request.outputs), request.amount, 0) = request.amount
ReversedReaches(request) ==
    GreedyTarget([i \in 1..Len(request.outputs) |->
                     request.outputs[Len(request.outputs) + 1 - i].amount],
                 request.amount, 0) = request.amount
AmountsPass(request) ==
    /\ SumAmounts(request.proofs) >= request.amount
    /\ SumAmounts(request.outputs) >= request.amount
    /\ SumAmounts(request.proofs) = SumAmounts(request.outputs)
ProofsVerify(self, proofs) == \A i \in 1..Len(proofs) : IsOk(verify_proof(self, proofs[i]))
OutputsSupported(outputs) ==
    \A i \in 1..Len(outputs) : outputs[i].amount \in DOMAIN active_keyset.keys
FallbackRule(request) ==
    /\ (~GivenReaches(request) /\ ReversedReaches(request)) =>
           (IsOk(TheCall.result) /\ SumAmounts(TheCall.result.value.snd) = request.amount)
    /\ (~GivenReaches(request) /\ ~ReversedReaches(request)) =>
           IsErr(TheCall.result, "OutputOrdering")
    /\ TheCall.extra[1].passes <= 2

\* C8 (as claimed): for a split that passes the amount checks and proof
\* verification, a given order that misses the amount while the reversed order
\* reaches it succeeds with target sum request.amount; when neither order reaches
\* it the split fails with OutputOrdering; at most two passes are made.
C8_Fallback ==
    (/\ Calling("process_split_request")
     /\ AmountsPass(TheCall.request)
     /\ ProofsVerify(SelfBefore, TheCall.request.proofs))
        => FallbackRule(TheCall.request)

\* C8 (amended): the same, for requests whose outputs all have an amount with a
\* keypair in the active keyset.
C8_FallbackSupportedOutputs ==
    (/\ Calling("process_split_request")
     /\ AmountsPass(TheCall.request)
     /\ ProofsVerify(SelfBefore, TheCall.request.proofs)
     /\ OutputsSupported(TheCall.request.outputs))
        => FallbackRule(TheCall.request)

\* a split that succeeded on its second pass, over the reversed outputs
C8_Witness ==
    /\ Calling("process_split_request")
    /\ AmountsPass(TheCall.request)
    /\ ProofsVerify(SelfBefore, TheCall.request.proofs)
    /\ OutputsSupported(TheCall.request.outputs)
    /\ ~GivenReaches(TheCall.request)
    /\ ReversedReaches(TheCall.request)
    /\ IsOk(TheCall.result)
    /\ TheCall.extra[1].passes = 2

\* C9: process_mint_request fails with AmountKey, returning no promise, when a
\* message has an amount without a keypair in the active keyset; otherwise it
\* returns one promise per message, in order, with the message's amount and the
\* active keyset's id.
C9_MintAllOrNothing ==
    Calling("process_mint_request") =>
        LET outputs == TheCall.request.outputs
        IN IF \E i \in 1..Len(outputs) : outputs[i].amount \notin DOMAIN active_keyset.keys
           THEN IsErr(TheCall.result, "AmountKey")
           ELSE /\ IsOk(TheCall.result)
                /\ Len(TheCall.result.value.promises) = Len(outputs)
                /\ \A i \in 1..Len(outputs) :
                      /\ TheCall.result.value.promises[i].amount = outputs[i].amount
                      /\ TheCall.result.value.promises[i].id = active_keyset.id

\* a batch whose first message is supported and whose second is not
C9_Witness ==
    /\ Calling("process_mint_request")
    /\ Len(TheCall.request.outputs) = 2
    /\ TheCall.request.outputs[1].amount \in DOMAIN active_keyset.keys
    /\ TheCall.request.outputs[2].amount \notin DOMAIN active_keyset.keys
    /\ IsErr(TheCall.result, "AmountKey")

\* C10 (as claimed): process_melt_request with fewer outputs than the change has
\* denominations returns the error Amount and does not panic.
C10_ShortOutputsAreAnError ==
    (/\ Calling("process_melt_request")
     /\ TheCall.request.outputs # None
     /\ Len(TheCall.request.outputs[1]) <
            Len(Amount_split(SumAmounts(TheCall.request.proofs) - TheCall.extra[1].total_spent)))
        => IsErr(TheCall.result, "Amount")

(***************************************************************************)
(* Several callers on one Mint. Each caller holds one request from the     *)
(* start: a split, or a melt made of verify_melt_request, the payment, and *)
(* process_melt_request. `&mut self` makes every call atomic; the callers' *)
(* calls run in any order.                                                 *)
(***************************************************************************)
Clients == {"c1", "c2"}

\* tokens of amount 1, and the non-empty lists of them
UnitProofs == {p \in Proofs : p.amount = 1}
UnitProofLists == SeqsUpTo(UnitProofs, MaxProofs) \ {<<>>}

\* a split of the proofs into as many outputs of the same amounts, all of it target
SplitOf(proofs) ==
    [amount |-> SumAmounts(proofs), proofs |-> proofs,
     outputs |-> [i \in 1..Len(proofs) |->
                     [amount |-> proofs[i].amount, b |-> CHOOSE b \in BlindedPoints : TRUE]]]
\* a melt of the proofs for an invoice of 1, everything spent, no change outputs
MeltOf(proofs) == [proofs |-> proofs, pr |-> [amount |-> 1], outputs |-> None]

Programs ==
    {[kind |-> "split", request |-> SplitOf(l)] : l \in UnitProofLists}
        \cup {[kind |-> "melt", request |-> MeltOf(l)] : l \in UnitProofLists}

\* whether the caller's first call succeeds on the Mint as constructed
ValidAlone(self, program) ==
    IF program.kind = "split" THEN IsOk(process_split_request(self, program.request).result)
    ELSE IsOk(verify_melt_request(self, program.request).result)

InitClients ==
    /\ active_keyset = KeySet_generate(ActiveId, MaxOrder)
    /\ inactive_keysets = [i \in {InactiveId} |-> KeySet_generate(i, InactiveOrder)]
    /\ spent_secrets \in SUBSET Secrets
    /\ call = None
    /\ \E programs \in [Clients -> Programs] :
           clients = [c \in Clients |->
                         [program |-> programs[c],
                          valid_alone |-> ValidAlone(Self, programs[c]),
                          done |-> <<>>]]

\* the number of calls made so far
Executed == Cardinality({<<c, i>> \in Clients \X (1..2) : i <= Len(clients[c].done)})

ClientCalled(c, op, outcome) ==
    /\ spent_secrets' = outcome.spent_secrets
    /\ clients' = [clients EXCEPT ![c].done =
                      Append(@, [op |-> op, result |-> outcome.result,
                                 at |-> Executed + 1, pre_spent |-> spent_secrets])]
    /\ UNCHANGED <<active_keyset, inactive_keysets, call>>

ClientSplit(c) ==
    /\ clients[c].program.kind = "split"
    /\ clients[c].done = <<>>
    /\ ClientCalled(c, "process_split_request",
                    process_split_request(Self, clients[c].program.request))

ClientVerifyMelt(c) ==
    /\ clients[c].program.kind = "melt"
    /\ clients[c].done = <<>>
    /\ ClientCalled(c, "verify_melt_request",
                    verify_melt_request(Self, clients[c].program.request))

\* the invoice is paid in full between the two phases
ClientProcessMelt(c) ==
    /\ clients[c].program.kind = "melt"
    /\ Len(clients[c].done) = 1
    /\ IsOk(clients[c].done[1].result)
    /\ \E preimage \in Preimages :
           ClientCalled(c, "process_melt_request",
                        process_melt_request(Self, clients[c].program.request, preimage,
                                             proofs_amount(clients[c].program.request)))

NextClients ==
    \E c \in Clients :
        \/ ClientSplit(c)
        \/ ClientVerifyMelt(c)
        \/ ClientProcessMelt(c)

SpecClients == InitClients /\ [][NextClients]_vars

(***************************************************************************)
(* Properties of sequences of calls, checked under SpecClients             *)
(***************************************************************************)
RequestOf(c) == clients[c].program.request
SecretsIn(c) == SecretsOf(RequestOf(c).proofs)
SplitSucceeded(c) ==
    /\ clients[c].program.kind = "split"
    /\ clients[c].done # <<>>
    /\ IsOk(clients[c].done[1].result)
MeltSucceeded(c) ==
    /\ clients[c].program.kind = "melt"
    /\ Len(clients[c].done) = 2
    /\ IsOk(clients[c].done[2].result)
\* the calls of c that verify proofs and were made after c0's split
LaterVerifying(c0, c) ==
    {k \in 1..Len(clients[c].done) :
        /\ clients[c].done[k].op \in {"process_split_request", "verify_melt_request"}
        /\ clients[c].done[k].at > clients[c0].done[1].at}
PassesAmountChecks(c) ==
    IF clients[c].program.kind = "split" THEN AmountsPass(RequestOf(c))
    ELSE SumAmounts(RequestOf(c).proofs) >= RequestOf(c).pr.amount
\* the Mint as it was when c made its k-th call
SelfAt(c, k) == [active_keyset |-> active_keyset,
                 inactive_keysets |-> inactive_keysets,
                 spent_secrets |-> clients[c].done[k].pre_spent]
\* the place of the first proof of c's request that reuses a secret of c0's
FirstReused(c0, c) ==
    CHOOSE i \in 1..Len(RequestOf(c).proofs) :
        /\ RequestOf(c).proofs[i].secret \in SecretsIn(c0)
        /\ \A j \in 1..(i - 1) : RequestOf(c).proofs[j].secret \notin SecretsIn(c0)

\* C1 (as claimed): after a successful split every secret of its proofs is in
\* spent_secrets, and a later split or verify_melt_request with any of those
\* secrets does not succeed: it fails with TokenSpent when it passes its amount
\* checks.
C1_ReuseFailsTokenSpent ==
    \A c0 \in Clients : SplitSucceeded(c0) =>
        /\ SecretsIn(c0) \subseteq spent_secrets
        /\ \A c \in Clients \ {c0} : \A k \in LaterVerifying(c0, c) :
              (SecretsIn(c) \cap SecretsIn(c0) # {}) =>
                  /\ ~IsOk(clients[c].done[k].result)
                  /\ PassesAmountChecks(c) => IsErr(clients[c].done[k].result, "TokenSpent")

\* C1 (amended): ... it does not succeed; when it passes its amount checks it
\* fails with the error of the first of its proofs that fails verification, which
\* is TokenSpent when every proof listed before the first reused one verifies.
C1_ReuseFails ==
    \A c0 \in Clients : SplitSucceeded(c0) =>
        /\ SecretsIn(c0) \subseteq spent_secrets
        /\ \A c \in Clients \ {c0} : \A k \in LaterVerifying(c0, c) :
              (SecretsIn(c) \cap SecretsIn(c0) # {}) =>
                  LET result == clients[c].done[k].result
                      proofs == RequestOf(c).proofs
                      failing == {i \in 1..Len(proofs) :
                                     ~IsOk(verify_proof(SelfAt(c, k), proofs[i]))}
                      first == CHOOSE i \in failing : \A j \in failing : i <= j
                  IN /\ ~IsOk(result)
                     /\ PassesAmountChecks(c) =>
                           /\ failing # {}
                           /\ result = verify_proof(SelfAt(c, k), proofs[first])
                           /\ first = FirstReused(c0, c) => IsErr(result, "TokenSpent")

\* a verify_melt_request, after a split, whose second proof reuses a secret of the
\* split and whose first proof verifies
C1_Witness ==
    \E c0 \in Clients : \E c \in Clients \ {c0} :
        /\ SplitSucceeded(c0)
        /\ clients[c].program.kind = "melt"
        /\ 1 \in LaterVerifying(c0, c)
        /\ Len(RequestOf(c).proofs) = 2
        /\ SecretsIn(c) \cap SecretsIn(c0) # {}
        /\ FirstReused(c0, c) = 2
        /\ IsOk(verify_proof(SelfAt(c, 1), RequestOf(c).proofs[1]))
        /\ IsErr(clients[c].done[1].result, "TokenSpent")

\* two callers with splits that each succeed alone and share a secret
Rivals(c1, c2) ==
    /\ c1 # c2
    /\ clients[c1].program.kind = "split" /\ clients[c2].program.kind = "split"
    /\ clients[c1].valid_alone /\ clients[c2].valid_alone
    /\ SecretsIn(c1) \cap SecretsIn(c2) # {}

\* C3: of two concurrent splits that are each valid alone and share a secret,
\* in every order of the calls exactly one succeeds and the other fails with
\* TokenSpent; both never succeed.
C3_OneOfTwoSplitsWins ==
    \A c1, c2 \in Clients : Rivals(c1, c2) =>
        /\ ~(SplitSucceeded(c1) /\ SplitSucceeded(c2))
        /\ (clients[c1].done # <<>> /\ clients[c2].done # <<>>) =>
              \/ SplitSucceeded(c1) /\ IsErr(clients[c2].done[1].result, "TokenSpent")
              \/ SplitSucceeded(c2) /\ IsErr(clients[c1].done[1].result, "TokenSpent")

\* both rivals have made their call, the second to call lost
C3_Witness ==
    \E c1, c2 \in Clients :
        /\ Rivals(c1, c2)
        /\ SecretsIn(c1) # SecretsIn(c2)
        /\ SplitSucceeded(c1)
        /\ clients[c2].done # <<>>
        /\ clients[c2].done[1].at = 2
        /\ IsErr(clients[c2].done[1].result, "TokenSpent")

\* how often a secret was an input of a successful split
TimesIn(proofs, s) == Cardinality({i \in 1..Len(proofs) : proofs[i].secret = s})
RECURSIVE TimesRedeemed(_, _)
TimesRedeemed(cs, s) ==
    IF cs = {} THEN 0
    ELSE LET c == CHOOSE x \in cs : TRUE
         IN (IF SplitSucceeded(c) THEN TimesIn(RequestOf(c).proofs, s) ELSE 0)
                + TimesRedeemed(cs \ {c}, s)

\* C4 (as claimed): a secret is accepted as an input of a successful split at
\* most once in total, also when it appears more than once in one request.
C4_RedeemedAtMostOnce == \A s \in Secrets : TimesRedeemed(Clients, s) <= 1

\* C5 (as claimed): no secret is an input both of a successful split and of a
\* successful process_melt_request.
C5_SplitOrMeltNotBoth ==
    \A c1, c2 \in Clients :
        (SplitSucceeded(c1) /\ MeltSucceeded(c2)) => SecretsIn(c1) \cap SecretsIn(c2) = {}

(***************************************************************************)
(* Further properties of single calls, checked under Spec                  *)
(***************************************************************************)
\* the proofs of the call's request that do not verify on the Mint as it was
FailingProofs ==
    {i \in 1..Len(TheCall.request.proofs) :
        ~IsOk(verify_proof(SelfBefore, TheCall.request.proofs[i]))}
FirstFailing == CHOOSE i \in FailingProofs : \A j \in FailingProofs : i <= j

\* C11: verify_melt_request fails with Amount when the proofs sum to less than
\* the invoice; otherwise it returns the first proof's verification error, or Ok
\* when all verify; spent_secrets is unchanged in every case.
C11_VerifyMelt ==
    Calling("verify_melt_request") =>
        /\ spent_secrets = TheCall.pre_spent
        /\ IF SumAmounts(TheCall.request.proofs) < TheCall.request.pr.amount
           THEN IsErr(TheCall.result, "Amount")
           ELSE IF FailingProofs = {} THEN IsOk(TheCall.result)
           ELSE TheCall.result = verify_proof(SelfBefore, TheCall.request.proofs[FirstFailing])

\* proofs that exactly cover the invoice: the second is the first to fail
C11_Witness ==
    /\ Calling("verify_melt_request")
    /\ SumAmounts(TheCall.request.proofs) = TheCall.request.pr.amount
    /\ FailingProofs = {2}
    /\ IsErr(TheCall.result, "AmountKey")

\* what a melt has left over once the invoice is paid
ChangeTarget == SumAmounts(TheCall.request.proofs) - TheCall.extra[1].total_spent

\* C12: a successful process_melt_request with outputs returns paid = true, the
\* given preimage and a change list whose i-th promise has the i-th denomination
\* of the change (not the amount of the i-th output) and the active keyset's id;
\* the change sums to the proofs' total minus what was paid.
C12_MeltChange ==
    (/\ Calling("process_melt_request")
     /\ IsOk(TheCall.result)
     /\ TheCall.request.outputs # None) =>
        LET response == TheCall.result.value
            change == response.change[1]
            denominations == Amount_split(ChangeTarget)
        IN /\ response.paid = TRUE
           /\ response.preimage = Some(TheCall.extra[1].preimage)
           /\ response.change # None
           /\ Len(change) = Len(denominations)
           /\ \A i \in 1..Len(change) :
                 /\ change[i].amount = denominations[i]
                 /\ change[i].id = active_keyset.id
           /\ SumAmounts(change) = ChangeTarget

\* change of two denominations, the first output carrying another amount
C12_Witness ==
    /\ Calling("process_melt_request")
    /\ IsOk(TheCall.result)
    /\ TheCall.request.outputs # None
    /\ Len(TheCall.result.value.change[1]) = 2
    /\ TheCall.request.outputs[1][1].amount # TheCall.result.value.change[1][1].amount

\* C13: check_spendable returns one boolean per proof, in order, true exactly for
\* the secrets in spent_secrets, and changes nothing (so a repeated call returns
\* the same); once a split has consumed a proof it reported false, it reports
\* true.
C13_CheckSpendable ==
    /\ Calling("check_spendable") =>
          /\ IsOk(TheCall.result)
          /\ Len(TheCall.result.value.spendable) = Len(TheCall.request.proofs)
          /\ \A i \in 1..Len(TheCall.request.proofs) :
                TheCall.result.value.spendable[i]
                    = (TheCall.request.proofs[i].secret \in TheCall.pre_spent)
          /\ spent_secrets = TheCall.pre_spent
          /\ check_spendable(Self, TheCall.request) = TheCall.result
    /\ (Calling("process_split_request") /\ IsOk(TheCall.result)) =>
          LET before == check_spendable(SelfBefore, [proofs |-> TheCall.request.proofs])
              after == check_spendable(Self, [proofs |-> TheCall.request.proofs])
          IN \A i \in 1..Len(TheCall.request.proofs) :
                /\ before.value.spendable[i] = FALSE
                /\ after.value.spendable[i] = TRUE

\* a check of two proofs, the first spent and the second not
C13_Witness ==
    /\ Calling("check_spendable")
    /\ Len(TheCall.request.proofs) = 2
    /\ TheCall.result.value.spendable = <<TRUE, FALSE>>

\* C14: a secret in spent_secrets stays in spent_secrets over every operation.
C14_SpentSecretsOnlyGrows == [][spent_secrets \subseteq spent_secrets']_vars

\* a split has added a secret to a set that held one already
C14_Witness ==
    /\ Calling("process_split_request")
    /\ TheCall.pre_spent # {}
    /\ TheCall.pre_spent \subseteq spent_secrets
    /\ spent_secrets # TheCall.pre_spent

\* C15: a call adds to spent_secrets only the secrets of the proofs of a split or
\* melt that succeeds: process_mint_request, check_spendable, verify_melt_request
\* and the keyset queries add none, so every secret of spent_secrets was there at
\* construction or was redeemed.
C15_OnlyRedeemedSecretsAdded ==
    call # None =>
        spent_secrets \ TheCall.pre_spent \subseteq
            (IF /\ TheCall.op \in {"process_split_request", "process_melt_request"}
                /\ IsOk(TheCall.result)
             THEN SecretsOf(TheCall.request.proofs)
             ELSE {})

\* a split that succeeded and added the secrets of both of its proofs
C15_Witness ==
    /\ Calling("process_split_request")
    /\ IsOk(TheCall.result)
    /\ TheCall.pre_spent = {}
    /\ spent_secrets = SecretsOf(TheCall.request.proofs)
    /\ Cardinality(spent_secrets) = 2

\* C17: keyset(id) returns the active keyset for the active id, else the inactive
\* keyset stored under id, else nothing; keysets() returns the active id with the
\* inactive ids; no operation changes active_keyset or inactive_keysets.
C17_KeysetQueries ==
    /\ Calling("keyset") =>
          TheCall.result.value =
              (IF TheCall.request = active_keyset.id THEN Some(KeySet_from(active_keyset))
               ELSE IF TheCall.request \in DOMAIN inactive_keysets
                    THEN Some(KeySet_from(inactive_keysets[TheCall.request]))
                    ELSE None)
    /\ Calling("keysets") =>
          TheCall.result.value.keysets = {active_keyset.id} \cup DOMAIN inactive_keysets
    /\ active_keyset = KeySet_generate(ActiveId, MaxOrder)
    /\ inactive_keysets = [i \in {InactiveId} |-> KeySet_generate(i, InactiveOrder)]

\* keysets() answered with both ids after a split changed the Mint
C17_Witness ==
    /\ Calling("keysets")
    /\ TheCall.result.value.keysets = {ActiveId, InactiveId}
    /\ spent_secrets # {}

\* C18: a split whose amounts fail one of the three checks fails with Amount
\* before any proof is verified or output signed, also when a proof is spent or
\* invalid or an output has an unsupported amount.
C18_AmountsFirst ==
    (Calling("process_split_request") /\ ~AmountsPass(TheCall.request)) =>
        /\ IsErr(TheCall.result, "Amount")
        /\ TheCall.extra[1].passes = 0

\* inputs that differ from the outputs, a spent proof and an unsupported output
C18_Witness ==
    /\ Calling("process_split_request")
    /\ SumAmounts(TheCall.request.proofs) >= TheCall.request.amount
    /\ SumAmounts(TheCall.request.outputs) >= TheCall.request.amount
    /\ SumAmounts(TheCall.request.proofs) # SumAmounts(TheCall.request.outputs)
    /\ SecretsOf(TheCall.request.proofs) \cap TheCall.pre_spent # {}
    /\ ~OutputsSupported(TheCall.request.outputs)
    /\ IsErr(TheCall.result, "Amount")

\* C20: process_melt_request on a request without outputs succeeds with paid =
\* true and an empty change list, whatever is left over of the proofs.
C20_MeltWithoutOutputs ==
    (Calling("process_melt_request") /\ TheCall.request.outputs = None) =>
        /\ IsOk(TheCall.result)
        /\ TheCall.result.value.paid = TRUE
        /\ TheCall.result.value.change = Some(<<>>)

\* a melt without outputs that leaves 3 of its proofs unpaid
C20_Witness ==
    /\ Calling("process_melt_request")
    /\ TheCall.request.outputs = None
    /\ ChangeTarget = 3
    /\ IsOk(TheCall.result)

(***************************************************************************)
(* The private helpers verify_proof and create_split_response on their own *)
(***************************************************************************)
HelperAmounts == {1, 2, 4, 8}
WrongSecret == "s0"
HelperPoints == {"B_", "B_2"}

\* inactive_keysets as Mint::new may be handed it: the rotated-out keyset under
\* its own id, or that keyset stored under the id of the active keyset as well
InactiveMaps ==
    {[i \in {InactiveId} |-> KeySet_generate(InactiveId, InactiveOrder)],
     [i \in {InactiveId, ActiveId} |-> KeySet_generate(InactiveId, InactiveOrder)]}

\* proofs of any amount, signed with a key of the active or the inactive keyset
\* over their secret or over another one, naming no keyset or any keyset id
HelperProofs ==
    {[amount |-> p[1], secret |-> p[2],
      c |-> sign_message(<<p[3], p[1]>>, IF p[4] THEN p[2] ELSE WrongSecret),
      id |-> p[5]] :
        p \in HelperAmounts \X Secrets \X {ActiveId, InactiveId} \X BOOLEAN
              \X ({None} \cup {Some(i) : i \in KeysetIds})}
HelperOutputLists == SeqsUpTo([amount : OutputAmounts, b : HelperPoints], MaxBucketed)

InitHelpers ==
    /\ active_keyset = KeySet_generate(ActiveId, MaxOrder)
    /\ inactive_keysets \in InactiveMaps
    /\ spent_secrets \in SUBSET Secrets
    /\ call = None
    /\ clients = <<>>

VerifyProof ==
    /\ call = None
    /\ \E proof \in HelperProofs :
          Called("verify_proof", proof, spent_secrets,
                 Outcome(spent_secrets, verify_proof(Self, proof)), None)

CreateSplitResponse ==
    /\ call = None
    /\ \E amount \in TargetAmounts, outputs \in HelperOutputLists :
          Called("create_split_response", [amount |-> amount, outputs |-> outputs],
                 spent_secrets,
                 Outcome(spent_secrets, create_split_response(Self, amount, outputs)), None)

NextHelpers ==
    \/ VerifyProof
    \/ CreateSplitResponse
    \/ Return

SpecHelpers == InitHelpers /\ [][NextHelpers]_vars

\* the keysets the Mint knows under an id
NamedBy(id) ==
    (IF id = active_keyset.id THEN {active_keyset} ELSE {})
        \cup (IF id \in DOMAIN inactive_keysets THEN {inactive_keysets[id]} ELSE {})
\* the keysets the claim lets a proof be verified against
KeysetsFor(proof) ==
    IF proof.id # None /\ NamedBy(proof.id[1]) # {} THEN NamedBy(proof.id[1])
    ELSE {active_keyset}
\* the checks in the order of the claim, against keyset ks
VerifiedAgainst(ks, proof) ==
    IF proof.secret \in TheCall.pre_spent THEN Err("TokenSpent")
    ELSE IF proof.amount \notin DOMAIN ks.keys THEN Err("AmountKey")
    ELSE IF ~IsOk(verify_message(ks.keys[proof.amount].secret_key, proof.c, proof.secret))
         THEN verify_message(ks.keys[proof.amount].secret_key, proof.c, proof.secret)
    ELSE Ok(proof.secret)

TargetBefore(outputs, amount, i) ==
    GreedyTarget(SubSeq(AmountsOf(outputs), 1, i - 1), amount, 0)
\* the outputs that a pass puts in the target bucket
InTarget(outputs, amount) ==
    {i \in 1..Len(outputs) : TargetBefore(outputs, amount, i) + outputs[i].amount <= amount}
\* the promises of the outputs at the positions in keep, in the order of outputs
RECURSIVE SignedAt(_, _, _)
SignedAt(self, outputs, keep) ==
    IF outputs = <<>> THEN <<>>
    ELSE (IF Len(outputs) \in keep
          THEN SignedAt(self, SubSeq(outputs, 1, Len(outputs) - 1), keep)
                   \o <<blind_sign(self, outputs[Len(outputs)]).value>>
          ELSE SignedAt(self, SubSeq(outputs, 1, Len(outputs) - 1), keep))

\* C19: a bucketing pass takes the outputs in the order given; a signed output
\* goes to the target bucket (snd) exactly when the running target total plus its
\* amount is at most the requested amount, else to the change bucket (fst); each
\* bucket keeps the order of the pass and each output is in exactly one bucket.
C19_BucketingPass ==
    (Calling("create_split_response") /\ IsOk(TheCall.result)) =>
        LET outputs == TheCall.request.outputs
            target == InTarget(outputs, TheCall.request.amount)
        IN /\ TheCall.result.value.snd = SignedAt(SelfBefore, outputs, target)
           /\ TheCall.result.value.fst
                  = SignedAt(SelfBefore, outputs, (1..Len(outputs)) \ target)
           /\ Len(TheCall.result.value.snd) + Len(TheCall.result.value.fst) = Len(outputs)

\* three outputs: the second is change, the third completes the target exactly
C19_Witness ==
    /\ Calling("create_split_response")
    /\ IsOk(TheCall.result)
    /\ Len(TheCall.request.outputs) = 3
    /\ InTarget(TheCall.request.outputs, TheCall.request.amount) = {1, 3}
    /\ Len(TheCall.result.value.snd) = 2
    /\ TheCall.result.value.snd[1].c # TheCall.result.value.snd[2].c
    /\ SumAmounts(TheCall.result.value.snd) = TheCall.request.amount

====
